---- MODULE Spec2Model ----
(***************************************************************************)
(* Appointment scheduling and reminder delivery of the DMC backend.        *)
(*                                                                         *)
(* The model follows the handlers' control flow and their effect on the    *)
(* rendez_vous table.  Column names are unified: the API modules write     *)
(* id_medecin / id_patient / id_hopital where models.py and chatbot.py     *)
(* write medecin_id / patient_id / hopital_id; both denote the same        *)
(* column here.  Where a keyword appears both in **rendez_vous.dict() and  *)
(* explicitly (medecins.py:166-171) the explicit keyword is the value      *)
(* stored.                                                                 *)
(*                                                                         *)
(* Time: a date is a day index (day of June 2025), an heure is a number of *)
(* seconds since midnight, a datetime is date * Day + heure.               *)
(***************************************************************************)
EXTENDS Integers, Sequences, FiniteSets, TLC

VARIABLES
    rdvs,        \* table rendez_vous: sequence of rows, id = index
    now,         \* wall clock (datetime.now()), in seconds
    chat_state,  \* ChatBot.chat_state: user -> session ("progress", "data")
    inflight,    \* requests between their conflict query and their commit
    delivered,   \* history: per rdv id, reminders the sender accepted
    run,         \* history: per rdv id, cycles and deliveries since the row or its
                 \*          horizon last changed
    lost,        \* history: a flag commit failed after a delivered reminder
    last,        \* history: the last completed operation, its outcome, its journal
    sched        \* the NotificationScheduler: where run() stands, how it was
                 \*          started, whether the stop signal has arrived

vars == <<rdvs, now, chat_state, inflight, delivered, run, lost, last, sched>>

-----------------------------------------------------------------------------
(* Bounds of the model *)

MaxRdv == 2          \* rows the table may hold
MaxRdvDisp == 1      \* rows the table may hold in the dispatcher runs
MaxSent == 2         \* deliveries per (rdv, horizon) recorded before cycles stop
MaxCycles == 2       \* cycles counted per run
MaxRdvDispo == 2     \* rows of the tables the slot calculator is run on
MaxSessions == 1     \* users in a session when the conversation is taken up
MaxRdvLot == 2       \* rows of the tables the dispatcher cycles are run on

-----------------------------------------------------------------------------
(* Values *)

None == 0 - 1        \* Python None for an optional date / heure / id

PLANIFIE == "planifie"
CONFIRME == "confirme"
ANNULE == "annule"
TERMINE == "termine"
StatutRendezVous == {PLANIFIE, CONFIRME, ANNULE, TERMINE}
NoStatut == "unset"  \* MiseAJourRendezVous.statut left unset

Hour == 60 * 60
Day == 24 * Hour

\* datetime.time(h, m, s) as seconds since midnight
Time(h, m, s) == h * Hour + m * 60 + s

\* datetime.combine(date, heure)
Combine(d, h) == d * Day + h

\* datetime.date() and datetime.time() of a datetime
DateOf(dt) == dt \div Day
HeureOf(dt) == dt % Day

Min(a, b) == IF a <= b THEN a ELSE b

-----------------------------------------------------------------------------
(* Reference tables (patient, medecin, hopital): fixed in the model *)

Patients == {1}
Medecins == {1, 2}
Hopitaux == {1}

Users == {"u1", "anon"}

\* The workers that serve requests at the same time
Procs == {1, 2}

\* Patient.email
PatientEmail(p) == "u1"

\* db.query(Patient).filter(Patient.email == user_id).first()
PatientByEmail(u) ==
    IF \E p \in Patients : PatientEmail(p) = u
    THEN CHOOSE p \in Patients : PatientEmail(p) = u
    ELSE None

\* Medecin.prenom, Medecin.nom as character sequences
MedecinPrenom(m) == IF m = 1 THEN <<"A">> ELSE <<"L">>
MedecinNom(m) == IF m = 1 THEN <<"R">> ELSE <<"B">>

-----------------------------------------------------------------------------
(* The rendez_vous table *)

\* models.RendezVous(...): a new row; statut and the two flags as given by
\* the constructor call and the column defaults
RendezVous(patient, medecin, hopital, d, h, statut) ==
    [patient_id |-> patient, medecin_id |-> medecin, hopital_id |-> hopital,
     date |-> d, heure |-> h, statut |-> statut,
     notification_24h_envoyee |-> FALSE, notification_1h_envoyee |-> FALSE]

Ids(t) == 1..Len(t)

\* The filter statut != ANNULE of the conflict queries
ToutStatutOccupe(row) == row.statut \in StatutRendezVous
OccupeCreneau(row) == row.statut # ANNULE

\* A creneau (medecin, date, heure) is held by a row of the table
Tient(row, m, d, h) ==
    /\ row.medecin_id = m
    /\ row.date = d
    /\ row.heure = h
    /\ OccupeCreneau(row)

\* History rows kept beside each table row
NoDelivery == [h24 |-> 0, h1 |-> 0]
NewRun == [cycles |-> 0, sent |-> 0]

\* What `last` records of a completed operation: the handler, its result,
\* the row it wrote, for a creation the statut its payload carried and what
\* became of its notification, for a chat turn the user, for a dispatcher
\* cycle the reminders it handed to the sender, in order
Outcome(op, res, id) ==
    [op |-> op, res |-> res, id |-> id, arg |-> NoStatut, date |-> None,
     heure |-> None, notif |-> "aucune", user |-> "aucun", msg |-> <<>>,
     journal |-> <<>>]

\* run() entered with self.running = True, from the daemon thread of
\* demarrer_application ("thread") or as the main thread of tasks.py
\* ("direct"); no stop signal yet.  pendant keeps where run() stood when
\* the signal arrived
Demarre(mode) ==
    [pc |-> "cycle", mode |-> mode, signal |-> FALSE, pendant |-> "aucun"]

NoLigne == RendezVous(None, None, None, None, None, NoStatut)
NoMaj == [date |-> None, heure |-> None, statut |-> NoStatut]

\* A request: where it stands, what it is, the creneau it targets, the row
\* it writes (id, once known), what it is about to write, its result
Repos ==
    [pc |-> "repos", kind |-> "aucun", medecin |-> None, date |-> None,
     heure |-> None, id |-> None, ligne |-> NoLigne, maj |-> NoMaj,
     user |-> "aucun", res |-> "aucun"]

-----------------------------------------------------------------------------
(* creer_rendez_vous: POST /moi/rendez-vous *)

\* The conflict query of creer_rendez_vous
ConflitCreation(t, m, d, h) == \E i \in Ids(t) : Tient(t[i], m, d, h)

\* The statut the created row gets, whatever the payload carries
StatutPayload(req) == req.statut
StatutInitial(req) == PLANIFIE

\* The checks of creer_rendez_vous in order, and the status code they end in
CreerResultat(t, m, req) ==
    IF req.id_patient \notin Patients THEN "404_patient"
    ELSE IF req.id_hopital \notin Hopitaux THEN "404_hopital"
    ELSE IF ConflitCreation(t, m, req.date, req.heure) THEN "400_creneau"
    ELSE "201"

\* bd.add(nouveau_rendez_vous); bd.commit()
CreerLigne(m, req) ==
    RendezVous(req.id_patient, m, req.id_hopital, req.date, req.heure,
               StatutInitial(req))

\* The table rows and their history rows grow together
Ajouter(row) ==
    /\ Len(rdvs) < MaxRdv
    /\ rdvs' = Append(rdvs, row)
    /\ delivered' = Append(delivered, NoDelivery)
    /\ run' = Append(run, NewRun)
    /\ lost' = Append(lost, FALSE)

\* Whether the handler reaches bd.add / bd.commit: every failed check raises
\* before them
InsereAvantConflit(res) == res \in {"201", "400_creneau"}
Insere(res) == res = "201"

\* What becomes of the creation notification sent after the commit: the
\* sender returns True, it returns False, or a statement of the try block
\* raises
Notifs == {"envoyee", "refusee", "exception"}

\* The response once the row is committed: the try / except around the
\* notification swallows every exception
ReponseSansExcept(notif) == IF notif = "exception" THEN "500" ELSE "201"
Reponse(notif) == "201"

creer_rendez_vous(m, req, notif) ==
    LET res == CreerResultat(rdvs, m, req) IN
    /\ IF Insere(res)
       THEN Ajouter(CreerLigne(m, req))
       ELSE UNCHANGED <<rdvs, delivered, run, lost>>
    /\ last' = IF res = "201"
               THEN [Outcome("creer", Reponse(notif), Len(rdvs) + 1)
                        EXCEPT !.arg = req.statut, !.notif = notif]
               ELSE Outcome("creer", res, None)
    /\ UNCHANGED <<now, sched, chat_state, inflight>>

-----------------------------------------------------------------------------
(* mettre_a_jour_rendez_vous: PUT /moi/rendez-vous/{id} *)

\* The row query: the id must exist and belong to the connected medecin
Trouve(t, m, id) == id \in Ids(t) /\ t[id].medecin_id = m

\* `if maj.date or maj.heure`: a date and a time are truthy, None is not
ChangeCreneau(maj) == maj.date # None \/ maj.heure # None

NouvelleDate(row, maj) == IF maj.date # None THEN maj.date ELSE row.date
NouvelleHeure(row, maj) == IF maj.heure # None THEN maj.heure ELSE row.heure

\* The conflict query without its filter id != id_rendez_vous
ConflitMajAvecSoi(t, m, id, d, h) ==
    \E i \in Ids(t) : Tient(t[i], m, d, h)

\* The conflict query of mettre_a_jour_rendez_vous: other rows only
ConflitMaj(t, m, id, d, h) ==
    \E i \in Ids(t) : i # id /\ Tient(t[i], m, d, h)

MajResultat(t, m, id, maj) ==
    IF ~Trouve(t, m, id) THEN "404"
    ELSE IF /\ ChangeCreneau(maj)
            /\ ConflitMaj(t, m, id, NouvelleDate(t[id], maj),
                          NouvelleHeure(t[id], maj))
         THEN "400_creneau"
    ELSE "200"

AppliquerMajRaz(row, maj) ==
    [row EXCEPT !.date = IF maj.date # None THEN maj.date ELSE @,
                !.heure = IF maj.heure # None THEN maj.heure ELSE @,
                !.statut = IF maj.statut # NoStatut THEN maj.statut ELSE @,
                !.notification_24h_envoyee = FALSE,
                !.notification_1h_envoyee = FALSE]

\* for champ, valeur in maj.dict(exclude_unset=True).items(): setattr(...)
AppliquerMaj(row, maj) ==
    [row EXCEPT !.date = NouvelleDate(row, maj),
                !.heure = NouvelleHeure(row, maj),
                !.statut = IF maj.statut # NoStatut THEN maj.statut ELSE @]

\* A changed row starts a new run of dispatcher cycles
RunApres(id, row) ==
    IF row = rdvs[id] THEN run ELSE [run EXCEPT ![id] = NewRun]

\* The handler; with detail, last also keeps the payload of the request and
\* the row as the handler found it
MettreAJour(m, id, maj, detail) ==
    LET res == MajResultat(rdvs, m, id, maj)
        fait == Outcome("maj", res, IF res = "404" THEN None ELSE id)
    IN
    /\ IF res = "200"
       THEN /\ rdvs' = [rdvs EXCEPT ![id] = AppliquerMaj(@, maj)]
            /\ run' = RunApres(id, AppliquerMaj(rdvs[id], maj))
       ELSE UNCHANGED <<rdvs, run>>
    /\ last' = IF detail
               THEN [fait EXCEPT !.arg = maj.statut, !.date = maj.date,
                                 !.heure = maj.heure,
                                 !.journal = IF res = "404" THEN <<>>
                                             ELSE <<rdvs[id]>>]
               ELSE fait
    /\ UNCHANGED <<now, sched, chat_state, inflight, delivered, lost>>

mettre_a_jour_rendez_vous(m, id, maj) == MettreAJour(m, id, maj, FALSE)

-----------------------------------------------------------------------------
(* ChatBot.cancel_appointment *)

\* The row query: id, owning patient's email, not yet cancelled
Annulable(t, u, id) ==
    /\ id \in Ids(t)
    /\ PatientEmail(t[id].patient_id) = u
    /\ t[id].statut # ANNULE

cancel_appointment(u, id) ==
    /\ IF Annulable(rdvs, u, id)
       THEN /\ rdvs' = [rdvs EXCEPT ![id].statut = ANNULE]
            /\ run' = [run EXCEPT ![id] = NewRun]
            /\ last' = Outcome("annuler", "ok", id)
       ELSE /\ UNCHANGED <<rdvs, run>>
            /\ last' = Outcome("annuler", "introuvable", None)
    /\ UNCHANGED <<now, sched, chat_state, inflight, delivered, lost>>

-----------------------------------------------------------------------------
(* Texts typed in the chat.  A text is a sequence of one-character strings;
   a date text is the three numbers between its dashes, a time text the two
   numbers around its colon. *)

\* Index of the first occurrence of the two characters a b in s, 0 if none
Find2(s, a, b) ==
    LET hits == {i \in 1..(Len(s) - 1) : s[i] = a /\ s[i + 1] = b} IN
    IF hits = {} THEN 0 ELSE CHOOSE i \in hits : \A j \in hits : i <= j

\* Index of the first occurrence of the character a in s, 0 if none
Find1(s, a) ==
    LET hits == {i \in 1..Len(s) : s[i] = a} IN
    IF hits = {} THEN 0 ELSE CHOOSE i \in hits : \A j \in hits : i <= j

\* data['doctor'].split(' (')[0]
AvantSpecialite(s) ==
    IF Find2(s, " ", "(") = 0 THEN s ELSE SubSeq(s, 1, Find2(s, " ", "(") - 1)

\* medecin_nom.split(' ', 1) if ' ' in medecin_nom else (medecin_nom, '')
PrenomDe(s) == IF Find1(s, " ") = 0 THEN s ELSE SubSeq(s, 1, Find1(s, " ") - 1)
NomDe(s) == IF Find1(s, " ") = 0 THEN <<>> ELSE SubSeq(s, Find1(s, " ") + 1, Len(s))

\* db.query(Medecin).filter(prenom == ..., nom == ...).first()
MedecinParNom(prenom, nom) ==
    IF \E m \in Medecins : MedecinPrenom(m) = prenom /\ MedecinNom(m) = nom
    THEN CHOOSE m \in Medecins : MedecinPrenom(m) = prenom /\ MedecinNom(m) = nom
    ELSE None

MedecinDuTexte(s) ==
    MedecinParNom(PrenomDe(AvantSpecialite(s)), NomDe(AvantSpecialite(s)))

\* Calendar of datetime: leap years, month lengths, date.toordinal()
Bissextile(y) == y % 4 = 0 /\ (y % 100 # 0 \/ y % 400 = 0)

JoursDuMois(y, m) ==
    IF m = 2 THEN (IF Bissextile(y) THEN 29 ELSE 28)
    ELSE IF m \in {4, 6, 9, 11} THEN 30 ELSE 31

RECURSIVE JoursAvantMois(_, _)
JoursAvantMois(y, m) ==
    IF m <= 1 THEN 0 ELSE JoursAvantMois(y, m - 1) + JoursDuMois(y, m - 1)

Ordinal(y, m, d) ==
    365 * (y - 1) + ((y - 1) \div 4) - ((y - 1) \div 100) + ((y - 1) \div 400)
    + JoursAvantMois(y, m) + d

\* The day index of a calendar date: days since 2025-05-31
Jour(y, m, d) == Ordinal(y, m, d) - Ordinal(2025, 5, 31)

\* datetime.strptime(text, "%Y-%m-%d") raises ValueError unless the text is
\* a four-digit year, a month and a day of that month
DateValide(txt) ==
    /\ Len(txt) = 3
    /\ txt[1] \in 1000..9999
    /\ txt[2] \in 1..12
    /\ txt[3] \in 1..JoursDuMois(txt[1], txt[2])

\* datetime.strptime(text, "%H:%M")
HeureValide(txt) ==
    /\ Len(txt) = 2
    /\ txt[1] \in 0..23
    /\ txt[2] \in 0..59

DateDuTexte(txt) == Jour(txt[1], txt[2], txt[3])
HeureDuTexte(txt) == Time(txt[1], txt[2], 0)

-----------------------------------------------------------------------------
(* ChatBot sessions *)

NoText == <<>>
NoSession == [progress |-> "none", data |-> [doctor |-> NoText, date |-> NoText, time |-> NoText]]

\* clear_user_state
ClearUserState(cs, u) == [cs EXCEPT ![u] = NoSession]

-----------------------------------------------------------------------------
(* ChatBot._confirm_appointment *)

\* The returns of _confirm_appointment in order
ConfirmResultat(t, u, data) ==
    IF PatientByEmail(u) = None THEN "patient_introuvable"
    ELSE IF MedecinDuTexte(data.doctor) = None THEN "medecin_introuvable"
    ELSE IF ~(DateValide(data.date) /\ HeureValide(data.time)) THEN "erreur"
    ELSE IF ConflitCreation(t, MedecinDuTexte(data.doctor),
                            DateDuTexte(data.date), HeureDuTexte(data.time))
         THEN "creneau_indisponible"
    ELSE "ok"

\* nouveau_rdv = RendezVous(..., hopital_id=1, statut=PLANIFIE, ...)
ConfirmLigne(u, data) ==
    RendezVous(PatientByEmail(u), MedecinDuTexte(data.doctor), 1,
               DateDuTexte(data.date), HeureDuTexte(data.time), PLANIFIE)

confirm_appointment(u, data) ==
    LET res == ConfirmResultat(rdvs, u, data) IN
    /\ IF res = "ok"
       THEN /\ Ajouter(ConfirmLigne(u, data))
            /\ chat_state' = ClearUserState(chat_state, u)
            /\ last' = [Outcome("confirmer", res, Len(rdvs) + 1) EXCEPT !.user = u]
       ELSE /\ UNCHANGED <<rdvs, delivered, run, lost, chat_state>>
            /\ last' = [Outcome("confirmer", res, None) EXCEPT !.user = u]
    /\ UNCHANGED <<now, sched, inflight>>

-----------------------------------------------------------------------------
(* Inputs of the requests *)

\* The medecins who send HTTP requests (utilisateur_courant); medecin 2 is
\* booked through the chat only
Connectes == {1}

Dates == {10}
Heures == {Time(9, 0, 0), Time(9, 30, 0)}

\* RendezVousCreation payloads: patient 3 and hopital 2 do not exist
Creations ==
    [id_patient : {1, 3}, id_hopital : {1, 2}, date : Dates, heure : Heures,
     statut : StatutRendezVous]

\* MiseAJourRendezVous payloads: every subset of the three fields set
MisesAJour ==
    [date : Dates \cup {None}, heure : Heures \cup {None},
     statut : StatutRendezVous \cup {NoStatut}]

DoctorTexts == {<<"A", " ", "R", " ", "(", "C", ")">>, <<"L", " ", "B">>, <<"Z">>}
DateTexts == {<<2025, 6, 10>>, <<2025, 6, 31>>}
TimeTexts == {<<9, 0>>, <<9, 30>>}
Drafts == [doctor : DoctorTexts, date : DateTexts, time : TimeTexts]

-----------------------------------------------------------------------------
(* Requests served one after the other *)

Init ==
    /\ rdvs = <<>>
    /\ now = Combine(8, Time(8, 30, 0))
    /\ chat_state = [u \in Users |-> NoSession]
    /\ inflight = [p \in Procs |-> Repos]
    /\ delivered = <<>>
    /\ run = <<>>
    /\ lost = <<>>
    /\ last = Outcome("init", "ok", None)
    /\ sched = Demarre("thread")

HttpCreate ==
    \E m \in Connectes, req \in Creations, notif \in Notifs :
        creer_rendez_vous(m, req, notif)

HttpUpdate ==
    \E m \in Connectes, id \in 1..MaxRdv, maj \in MisesAJour :
        MettreAJour(m, id, maj, TRUE)

ChatCancel == \E u \in Users, id \in 1..MaxRdv : cancel_appointment(u, id)

ChatConfirm == \E u \in Users, data \in Drafts : confirm_appointment(u, data)

Next == HttpCreate \/ HttpUpdate \/ ChatCancel \/ ChatConfirm

Spec == Init /\ [][Next]_vars

-----------------------------------------------------------------------------
(* Requests served concurrently.  Every request runs in its own database
   session: its queries read the table as committed when they run, and its
   commit writes later.  The table carries no uniqueness constraint on
   (medecin_id, date, heure) (models.py:181-196), so a commit never fails on
   a row another session has committed in between. *)

\* Requests that only move a rendez-vous: date or heure set, statut unset
Deplacements ==
    {maj \in MisesAJour : maj.statut = NoStatut /\ ChangeCreneau(maj)}

\* creer_rendez_vous up to its conflict query (medecins.py:135-163)
CreerVerifie(p, m, req) ==
    LET res == CreerResultat(rdvs, m, req) IN
    /\ inflight[p].pc = "repos"
    /\ inflight' = [inflight EXCEPT ![p] =
          [Repos EXCEPT !.pc = IF res = "201" THEN "verifie" ELSE "fini",
                        !.kind = "creer", !.medecin = m, !.date = req.date,
                        !.heure = req.heure, !.ligne = CreerLigne(m, req),
                        !.res = res]]
    /\ UNCHANGED <<rdvs, now, sched, chat_state, delivered, run, lost, last>>

\* _confirm_appointment up to its conflict query (chatbot.py:180-212)
ConfirmVerifie(p, u, data) ==
    LET res == ConfirmResultat(rdvs, u, data) IN
    /\ inflight[p].pc = "repos"
    /\ inflight' = [inflight EXCEPT ![p] =
          IF res \in {"ok", "creneau_indisponible"}
          THEN [Repos EXCEPT !.pc = IF res = "ok" THEN "verifie" ELSE "fini",
                             !.kind = "confirmer",
                             !.medecin = MedecinDuTexte(data.doctor),
                             !.date = DateDuTexte(data.date),
                             !.heure = HeureDuTexte(data.time),
                             !.ligne = ConfirmLigne(u, data), !.user = u,
                             !.res = res]
          ELSE [Repos EXCEPT !.pc = "fini", !.kind = "confirmer", !.user = u,
                             !.res = res]]
    /\ UNCHANGED <<rdvs, now, sched, chat_state, delivered, run, lost, last>>

\* mettre_a_jour_rendez_vous up to its conflict query (medecins.py:210-240)
MajVerifie(p, m, id, maj) ==
    LET res == MajResultat(rdvs, m, id, maj) IN
    /\ inflight[p].pc = "repos"
    /\ inflight' = [inflight EXCEPT ![p] =
          IF res = "404"
          THEN [Repos EXCEPT !.pc = "fini", !.kind = "maj", !.res = res]
          ELSE [Repos EXCEPT !.pc = IF res = "200" THEN "verifie" ELSE "fini",
                             !.kind = "maj", !.medecin = m,
                             !.date = NouvelleDate(rdvs[id], maj),
                             !.heure = NouvelleHeure(rdvs[id], maj),
                             !.id = id, !.maj = maj, !.res = res]]
    /\ UNCHANGED <<rdvs, now, sched, chat_state, delivered, run, lost, last>>

\* bd.add(...); bd.commit() of the two creations, setattr(...); bd.commit()
\* of the update (medecins.py:173-174, 243-246; chatbot.py:226-229)
Commit(p) ==
    /\ inflight[p].pc = "verifie"
    /\ IF inflight[p].kind = "maj"
       THEN /\ rdvs' = [rdvs EXCEPT ![inflight[p].id] =
                            AppliquerMaj(@, inflight[p].maj)]
            /\ inflight' = [inflight EXCEPT ![p].pc = "fini"]
            /\ UNCHANGED <<delivered, run, lost, chat_state>>
       ELSE /\ Ajouter(inflight[p].ligne)
            /\ inflight' = [inflight EXCEPT ![p].pc = "fini",
                                            ![p].id = Len(rdvs) + 1]
            /\ chat_state' = IF inflight[p].kind = "confirmer"
                             THEN ClearUserState(chat_state, inflight[p].user)
                             ELSE chat_state
    /\ UNCHANGED <<now, sched, last>>

\* The response is sent; the worker takes the next request
Retour(p) ==
    /\ inflight[p].pc = "fini"
    /\ inflight' = [inflight EXCEPT ![p] = Repos]
    /\ UNCHANGED <<rdvs, now, sched, chat_state, delivered, run, lost, last>>

CreationsConc ==
    {req \in Creations : req.id_hopital = 1 /\ req.statut = PLANIFIE}
DraftsConc == {data \in Drafts : data.date = <<2025, 6, 10>>}

ConcCreer ==
    \E p \in Procs, m \in Connectes, req \in CreationsConc : CreerVerifie(p, m, req)
ConcConfirmer ==
    \E p \in Procs, data \in DraftsConc : ConfirmVerifie(p, "u1", data)
ConcMaj ==
    \E p \in Procs, m \in Connectes, id \in 1..MaxRdv, maj \in Deplacements :
        MajVerifie(p, m, id, maj)
ConcCommit == \E p \in Procs : Commit(p)
ConcRetour == \E p \in Procs : Retour(p)

NextConc == ConcCreer \/ ConcConfirmer \/ ConcMaj \/ ConcCommit \/ ConcRetour

SpecConc == Init /\ [][NextConc]_vars

\* The request of p ended in success and its row holds the creneau it targeted
AbouttiEtTient(p) ==
    /\ inflight[p].pc = "fini"
    /\ inflight[p].res \in {"201", "ok", "200"}
    /\ rdvs[inflight[p].id].medecin_id = inflight[p].medecin
    /\ rdvs[inflight[p].id].date = inflight[p].date
    /\ rdvs[inflight[p].id].heure = inflight[p].heure
    /\ rdvs[inflight[p].id].statut # ANNULE

\* C1: of the concurrent create and reschedule calls that target the same
\* (medecin, date, heure), at most one ends with a non-cancelled row holding
\* that creneau; the others observe the conflict.
C1_UnSeulAppelObtientLeCreneau ==
    \A p, q \in Procs :
        ( /\ p # q
          /\ inflight[p].medecin = inflight[q].medecin
          /\ inflight[p].date = inflight[q].date
          /\ inflight[p].heure = inflight[q].heure
          /\ inflight[p].id # inflight[q].id )
        => ~(AbouttiEtTient(p) /\ AbouttiEtTient(q))

-----------------------------------------------------------------------------
(* NotificationService.check_upcoming_appointments, run by
   NotificationScheduler.check_notifications on a session of its own *)

\* The candidate query without its filter on statut
CandidatsToutStatut(t, n) ==
    {i \in Ids(t) :
        /\ t[i].patient_id \in Patients
        /\ t[i].date >= DateOf(n)
        /\ t[i].date <= DateOf(n + 25 * Hour)
        /\ (~t[i].notification_24h_envoyee \/ ~t[i].notification_1h_envoyee)}

\* The candidate query: confirmed rows joined to their patient, dated from
\* now.date() to (now + 25h).date(), with a flag still false
Candidats(t, n) ==
    {i \in Ids(t) :
        /\ t[i].patient_id \in Patients
        /\ t[i].statut = CONFIRME
        /\ t[i].date >= DateOf(n)
        /\ t[i].date <= DateOf(n + 25 * Hour)
        /\ (~t[i].notification_24h_envoyee \/ ~t[i].notification_1h_envoyee)}

\* The if / elif on time_diff = combine(date, heure) - now and the flags
RappelSansBorne(row, n) ==
    IF Combine(row.date, row.heure) - n <= Hour /\ ~row.notification_1h_envoyee
    THEN "reminder_1h"
    ELSE IF Combine(row.date, row.heure) - n <= 24 * Hour
            /\ ~row.notification_24h_envoyee
         THEN "reminder_24h"
    ELSE "aucun"

Rappel(row, n) ==
    LET time_diff == Combine(row.date, row.heure) - n IN
    IF 0 < time_diff /\ time_diff <= Hour /\ ~row.notification_1h_envoyee
    THEN "reminder_1h"
    ELSE IF Hour < time_diff /\ time_diff <= 24 * Hour
            /\ ~row.notification_24h_envoyee
         THEN "reminder_24h"
    ELSE "aucun"

\* What happens to one reminder: the sender returns True and the flag commit
\* succeeds; the sender returns False; the sender returns True and db.commit()
\* raises
Issues == {"envoye", "refuse", "commit_echoue"}

FlagOublie(row, r) == row

\* rdv.notification_..._envoyee = True; db.commit()
FlagPose(row, r) ==
    IF r = "reminder_1h" THEN [row EXCEPT !.notification_1h_envoyee = TRUE]
    ELSE [row EXCEPT !.notification_24h_envoyee = TRUE]

\* The history of a delivery the sender accepted
Compte(d, r) ==
    IF r = "reminder_1h" THEN [d EXCEPT !.h1 = @ + 1] ELSE [d EXCEPT !.h24 = @ + 1]

\* One turn of the loop that leaves the loop when the sender returns False
TraiteArretSurRefus(st, i, issue, n) ==
    LET r == Rappel(st.rdvs[i], n)
        note == Append(st.journal, [id |-> i, rappel |-> r, issue |-> issue])
    IN
    IF st.arret \/ r = "aucun" THEN st
    ELSE IF issue = "refuse" THEN [st EXCEPT !.journal = note, !.arret = TRUE]
    ELSE IF issue = "envoye"
    THEN [st EXCEPT !.rdvs[i] = FlagPose(@, r),
                    !.delivered[i] = Compte(@, r),
                    !.run[i].sent = @ + 1,
                    !.journal = note]
    ELSE [st EXCEPT !.delivered[i] = Compte(@, r),
                    !.run[i].sent = @ + 1,
                    !.lost[i] = TRUE,
                    !.journal = note,
                    !.arret = TRUE]

\* One turn of the loop that sets the flag whatever the sender returned
TraiteSansRetour(st, i, issue, n) ==
    LET r == Rappel(st.rdvs[i], n)
        note == Append(st.journal, [id |-> i, rappel |-> r, issue |-> issue])
    IN
    IF st.arret \/ r = "aucun" THEN st
    ELSE IF issue = "refuse"
    THEN [st EXCEPT !.rdvs[i] = FlagPose(@, r), !.journal = note]
    ELSE IF issue = "envoye"
    THEN [st EXCEPT !.rdvs[i] = FlagPose(@, r),
                    !.delivered[i] = Compte(@, r),
                    !.run[i].sent = @ + 1,
                    !.journal = note]
    ELSE [st EXCEPT !.delivered[i] = Compte(@, r),
                    !.run[i].sent = @ + 1,
                    !.lost[i] = TRUE,
                    !.journal = note,
                    !.arret = TRUE]

\* One turn of the for loop on row i.  st carries the table and the
\* histories through the loop; st.arret says an exception has left the loop
Traite(st, i, issue, n) ==
    LET r == Rappel(st.rdvs[i], n)
        note == Append(st.journal, [id |-> i, rappel |-> r, issue |-> issue])
    IN
    IF st.arret \/ r = "aucun" THEN st
    ELSE IF issue = "refuse" THEN [st EXCEPT !.journal = note]
    ELSE IF issue = "envoye"
    THEN [st EXCEPT !.rdvs[i] = FlagPose(@, r),
                    !.delivered[i] = Compte(@, r),
                    !.run[i].sent = @ + 1,
                    !.journal = note]
    ELSE [st EXCEPT !.delivered[i] = Compte(@, r),
                    !.run[i].sent = @ + 1,
                    !.lost[i] = TRUE,
                    !.journal = note,
                    !.arret = TRUE]

RECURSIVE Parcours(_, _, _, _)
Parcours(st, ordre, issues, n) ==
    IF ordre = <<>> THEN st
    ELSE Parcours(Traite(st, Head(ordre), issues[Head(ordre)], n),
                  Tail(ordre), issues, n)

\* The orders in which .all() may return the rows of a set (no ORDER BY)
Ordres(S) ==
    {o \in [1..Cardinality(S) -> S] : \A a, b \in 1..Cardinality(S) : a # b => o[a] # o[b]}

\* Every row has seen one more cycle
CyclesComptes(r) ==
    [i \in DOMAIN r |-> [r[i] EXCEPT !.cycles = Min(@ + 1, MaxCycles)]]

\* A cycle whose rollback would undo the flags committed before the error
check_notifications_annule(ordre, issues) ==
    LET fin == Parcours([rdvs |-> rdvs, delivered |-> delivered, lost |-> lost,
                         run |-> CyclesComptes(run), journal |-> <<>>,
                         arret |-> FALSE], ordre, issues, now) IN
    /\ \A i \in Ids(rdvs) :
          fin.delivered[i].h24 <= MaxSent /\ fin.delivered[i].h1 <= MaxSent
    /\ rdvs' = IF fin.arret THEN rdvs ELSE fin.rdvs
    /\ delivered' = fin.delivered
    /\ run' = fin.run
    /\ lost' = fin.lost
    /\ last' = [Outcome("cycle", IF fin.arret THEN "abandon" ELSE "ok", None)
                   EXCEPT !.journal = fin.journal]
    /\ UNCHANGED <<now, chat_state, inflight>>

check_notifications(ordre, issues) ==
    LET fin == Parcours([rdvs |-> rdvs, delivered |-> delivered, lost |-> lost,
                         run |-> CyclesComptes(run), journal |-> <<>>,
                         arret |-> FALSE], ordre, issues, now) IN
    /\ \A i \in Ids(rdvs) :
          fin.delivered[i].h24 <= MaxSent /\ fin.delivered[i].h1 <= MaxSent
    /\ rdvs' = fin.rdvs
    /\ delivered' = fin.delivered
    /\ run' = fin.run
    /\ lost' = fin.lost
    /\ last' = [Outcome("cycle", IF fin.arret THEN "abandon" ELSE "ok", None)
                   EXCEPT !.journal = fin.journal]
    /\ UNCHANGED <<now, chat_state, inflight>>

\* The horizon the clock is in for a row, whatever its flags
Horizon(row, n) ==
    IF Combine(row.date, row.heure) - n \in 1..Hour THEN "1h"
    ELSE IF Combine(row.date, row.heure) - n \in (Hour + 1)..(24 * Hour) THEN "24h"
    ELSE "hors"

\* Time passes; a row whose horizon changes starts a new run
Avance(n) ==
    /\ n > now
    /\ now' = n
    /\ run' = [i \in DOMAIN run |->
                  IF Horizon(rdvs[i], n) = Horizon(rdvs[i], now)
                  THEN run[i] ELSE NewRun]
    /\ last' = Outcome("horloge", "ok", None)
    /\ UNCHANGED <<rdvs, sched, chat_state, inflight, delivered, lost>>

\* The rendez-vous of the dispatcher runs: 2025-06-10 at 09:00, moved to
\* 09:30 and back by updates
RendezVousDuJour ==
    [id_patient |-> 1, id_hopital |-> 1, date |-> 10, heure |-> Time(9, 0, 0),
     statut |-> PLANIFIE]

MisesAJourDisp ==
    {maj \in MisesAJour : maj.date = None /\ (maj.heure = None \/ maj.statut = NoStatut)}

\* The instants at which the clock is read, around 2025-06-10 09:00
Instants ==
    {Combine(8, Time(8, 30, 0)),
     Combine(9, Time(8, 30, 0)), Combine(9, Time(9, 0, 0)),
     Combine(9, Time(10, 0, 0)),
     Combine(10, Time(7, 30, 0)), Combine(10, Time(8, 0, 0)),
     Combine(10, Time(8, 30, 0)), Combine(10, Time(9, 0, 0)),
     Combine(10, Time(9, 30, 0)), Combine(11, Time(0, 30, 0))}

DispCreate ==
    /\ Len(rdvs) < MaxRdvDisp
    /\ \E notif \in Notifs : creer_rendez_vous(1, RendezVousDuJour, notif)
DispUpdate ==
    \E id \in 1..MaxRdv, maj \in MisesAJourDisp : mettre_a_jour_rendez_vous(1, id, maj)
Cycle ==
    /\ \E ordre \in Ordres(Candidats(rdvs, now)) :
          \E issues \in [Candidats(rdvs, now) -> Issues] :
              check_notifications(ordre, issues)
    /\ UNCHANGED sched
Tick == \E n \in Instants : Avance(n)

NextDisp == DispCreate \/ DispUpdate \/ Cycle \/ Tick

SpecDisp == Init /\ [][NextDisp]_vars

-----------------------------------------------------------------------------
(* NotificationScheduler.run: while self.running: check_notifications();
   time.sleep(...).  Nothing in the program sets self.running to False from
   outside; the stop signal is SIGINT, which Python raises as
   KeyboardInterrupt in the main thread only. *)

\* One turn of the loop: check_notifications, then the loop sleeps
SchedCycle ==
    /\ sched.pc = "cycle"
    /\ \E ordre \in Ordres(Candidats(rdvs, now)) :
          \E issues \in [Candidats(rdvs, now) -> Issues] :
              check_notifications(ordre, issues)
    /\ sched' = [sched EXCEPT !.pc = "sleep"]

\* create_engine or Session raises before the try of check_notifications:
\* the except Exception of run() sets self.running = False
SchedErreur ==
    /\ sched.pc = "cycle"
    /\ sched' = [sched EXCEPT !.pc = "arrete"]
    /\ last' = Outcome("cycle", "erreur_critique", None)
    /\ UNCHANGED <<rdvs, now, chat_state, inflight, delivered, run, lost>>

\* time.sleep returns; self.running is still True
SchedReveil ==
    /\ sched.pc = "sleep"
    /\ sched' = [sched EXCEPT !.pc = "cycle"]
    /\ UNCHANGED <<rdvs, now, chat_state, inflight, delivered, run, lost, last>>

\* SIGINT arrives.  Run as the main thread, run() gets KeyboardInterrupt
\* wherever it stands and leaves the loop; run in the daemon thread, it
\* gets nothing
SchedSignal ==
    /\ ~sched.signal
    /\ sched.pc # "arrete"
    /\ sched' = IF sched.mode = "direct"
                THEN [sched EXCEPT !.signal = TRUE, !.pendant = sched.pc,
                                   !.pc = "arrete"]
                ELSE [sched EXCEPT !.signal = TRUE, !.pendant = sched.pc]
    /\ UNCHANGED <<rdvs, now, chat_state, inflight, delivered, run, lost, last>>

\* The server has shut down and the interpreter exits: the daemon thread
\* stops where it stands
SchedExit ==
    /\ sched.mode = "thread"
    /\ sched.signal
    /\ sched.pc # "arrete"
    /\ sched' = [sched EXCEPT !.pc = "arrete"]
    /\ UNCHANGED <<rdvs, now, chat_state, inflight, delivered, run, lost, last>>

InitSched ==
    /\ rdvs = <<>>
    /\ now = Combine(8, Time(8, 30, 0))
    /\ chat_state = [u \in Users |-> NoSession]
    /\ inflight = [p \in Procs |-> Repos]
    /\ delivered = <<>>
    /\ run = <<>>
    /\ lost = <<>>
    /\ last = Outcome("init", "ok", None)
    /\ sched \in {Demarre("thread"), Demarre("direct")}

NextSched ==
    \/ DispCreate \/ DispUpdate \/ Tick
    \/ SchedCycle \/ SchedErreur \/ SchedReveil \/ SchedSignal \/ SchedExit

SpecSched == InitSched /\ [][NextSched]_vars

-----------------------------------------------------------------------------
(* verifier_disponibilite *)

HEURE_DEBUT == 9
HEURE_FIN == 18
DUREE_RDV == 30

\* The non-cancelled rows of the doctor on the date
RendezVousDuMedecin(t, m, d) ==
    {i \in Ids(t) : t[i].medecin_id = m /\ t[i].date = d /\ t[i].statut # ANNULE}

\* creneaux_occupes: heure.hour * 60 + heure.minute of each of them
CreneauxOccupes(t, m, d) ==
    {(t[i].heure \div Hour) * 60 + ((t[i].heure % Hour) \div 60) :
        i \in RendezVousDuMedecin(t, m, d)}

\* range(debut, fin, pas), pas > 0
Range(debut, fin, pas) ==
    [k \in 1..((fin - debut + pas - 1) \div pas) |-> debut + (k - 1) * pas]

\* The list of datetimes built by the for loop
CreneauxDisponibles(t, m, d) ==
    LET Libre(minutes) == minutes \notin CreneauxOccupes(t, m, d)
        libres == SelectSeq(Range(HEURE_DEBUT * 60, HEURE_FIN * 60, DUREE_RDV), Libre)
    IN [k \in 1..Len(libres) |-> Combine(d, 0) + libres[k] * 60]

verifier_disponibilite(m, d) ==
    /\ last' = [Outcome("disponibilite", "200", m)
                   EXCEPT !.date = d, !.journal = CreneauxDisponibles(rdvs, m, d)]
    /\ UNCHANGED <<rdvs, now, sched, chat_state, inflight, delivered, run, lost>>

\* The rows the calculator is run on: both doctors, two dates, times on and
\* off the half hours, with and without seconds
LignesDispo ==
    {RendezVous(1, m, 1, d, h, st) :
        m \in Medecins, d \in {10, 11},
        h \in {Time(9, 0, 0), Time(9, 0, 30), Time(9, 15, 0), Time(17, 30, 0)},
        st \in {CONFIRME, ANNULE}}

\* A day on which every half hour from 09:00 to 17:30 is taken
JourneeComplete ==
    [k \in 1..18 |->
        RendezVous(1, 1, 1, 10, Time(9, 0, 0) + (k - 1) * 30 * 60, PLANIFIE)]

TablesDispo ==
    UNION {[1..n -> LignesDispo] : n \in 0..MaxRdvDispo} \cup {JourneeComplete}

InitDispo ==
    /\ rdvs \in TablesDispo
    /\ now = Combine(8, Time(8, 30, 0))
    /\ chat_state = [u \in Users |-> NoSession]
    /\ inflight = [p \in Procs |-> Repos]
    /\ delivered = [i \in Ids(rdvs) |-> NoDelivery]
    /\ run = [i \in Ids(rdvs) |-> NewRun]
    /\ lost = [i \in Ids(rdvs) |-> FALSE]
    /\ last = Outcome("init", "ok", None)
    /\ sched = Demarre("thread")

HttpDisponibilite == \E m \in Medecins, d \in {10, 11} : verifier_disponibilite(m, d)

NextDispo == HttpDisponibilite

SpecDispo == InitDispo /\ [][NextDispo]_vars

-----------------------------------------------------------------------------
(* ChatBot: the booking conversation.  A message is the sequence of its
   characters. *)

JeVeuxUnRendezVous == <<"j", "e", " ", "v", "e", "u", "x", " ", "u", "n", " ", "r", "e", "n", "d", "e", "z", "-", "v", "o", "u", "s">>
JeVeuxPrendreRendezVous == <<"j", "e", " ", "v", "e", "u", "x", " ", "p", "r", "e", "n", "d", "r", "e", " ", "r", "e", "n", "d", "e", "z", "-", "v", "o", "u", "s">>
RendezVousMot == <<"r", "e", "n", "d", "e", "z", "-", "v", "o", "u", "s">>
Annuler == <<"a", "n", "n", "u", "l", "e", "r">>
JeVeuxAnnuler == <<"j", "e", " ", "v", "e", "u", "x", " ", "a", "n", "n", "u", "l", "e", "r">>
AnnulerLeRendezVous == <<"a", "n", "n", "u", "l", "e", "r", " ", "l", "e", " ", "r", "e", "n", "d", "e", "z", "-", "v", "o", "u", "s">>
Stop == <<"s", "t", "o", "p">>
Oui == <<"o", "u", "i">>
JeConfirme == <<"j", "e", " ", "c", "o", "n", "f", "i", "r", "m", "e">>
Confirmer == <<"c", "o", "n", "f", "i", "r", "m", "e", "r">>
Non == <<"n", "o", "n">>
MesRdv == <<"m", "e", "s", " ", "r", "d", "v">>
MesRendezVous == <<"m", "e", "s", " ", "r", "e", "n", "d", "e", "z", "-", "v", "o", "u", "s">>
AfficherMesRendezVous == <<"a", "f", "f", "i", "c", "h", "e", "r", " ", "m", "e", "s", " ", "r", "e", "n", "d", "e", "z", "-", "v", "o", "u", "s">>
AnnulerRdv == <<"a", "n", "n", "u", "l", "e", "r", " ", "r", "d", "v">>
AnnulerLeRdv == <<"a", "n", "n", "u", "l", "e", "r", " ", "l", "e", " ", "r", "d", "v">>
AnnulerRendezVous == <<"a", "n", "n", "u", "l", "e", "r", " ", "r", "e", "n", "d", "e", "z", "-", "v", "o", "u", "s">>
Rdv == <<"r", "d", "v">>
Consultation == <<"c", "o", "n", "s", "u", "l", "t", "a", "t", "i", "o", "n">>

\* The lists the code tests message.lower() against
Annulations == {Annuler, JeVeuxAnnuler, AnnulerLeRendezVous, Stop}
Demandes == {JeVeuxUnRendezVous, JeVeuxPrendreRendezVous, RendezVousMot}
Affirmations == {Oui, JeConfirme, Confirmer}
Negations == {Non, Annuler}
Consultations == {MesRdv, MesRendezVous, AfficherMesRendezVous}
CommandesAnnulation == {AnnulerRdv, AnnulerLeRdv, AnnulerRendezVous}
MotsCles == {RendezVousMot, Rdv, Consultation}

\* str.lower() on the capitals the messages use
Majuscules ==
    "A" :> "a" @@ "B" :> "b" @@ "C" :> "c" @@ "L" :> "l" @@ "O" :> "o"
    @@ "P" :> "p" @@ "R" :> "r" @@ "S" :> "s" @@ "T" :> "t" @@ "Z" :> "z"

Lower(txt) ==
    [i \in 1..Len(txt) |->
        IF txt[i] \in DOMAIN Majuscules THEN Majuscules[txt[i]] ELSE txt[i]]

\* mot in txt
Contient(txt, mot) ==
    \E i \in 1..(Len(txt) - Len(mot) + 1) : SubSeq(txt, i, i + Len(mot) - 1) = mot

\* The numbers strptime reads between the separators of a text; no number
\* at all when a field is empty or holds anything but digits
Chiffres ==
    "0" :> 0 @@ "1" :> 1 @@ "2" :> 2 @@ "3" :> 3 @@ "4" :> 4 @@ "5" :> 5
    @@ "6" :> 6 @@ "7" :> 7 @@ "8" :> 8 @@ "9" :> 9

RECURSIVE Nombre(_)
Nombre(s) ==
    IF s = <<>> THEN 0
    ELSE 10 * Nombre(SubSeq(s, 1, Len(s) - 1)) + Chiffres[s[Len(s)]]

RECURSIVE Decoupe(_, _)
Decoupe(s, sep) ==
    IF Find1(s, sep) = 0 THEN <<s>>
    ELSE <<SubSeq(s, 1, Find1(s, sep) - 1)>>
         \o Decoupe(SubSeq(s, Find1(s, sep) + 1, Len(s)), sep)

Champs(s, sep) ==
    LET f == Decoupe(s, sep) IN
    IF \A i \in 1..Len(f) :
           f[i] # <<>> /\ \A k \in 1..Len(f[i]) : f[i][k] \in DOMAIN Chiffres
    THEN [i \in 1..Len(f) |-> Nombre(f[i])]
    ELSE <<>>

\* datetime.strptime(message, "%Y-%m-%d") and strptime(message, "%H:%M")
\* return without ValueError
DateLisible(msg) == DateValide(Champs(msg, "-"))
HeureLisible(msg) == HeureValide(Champs(msg, ":"))

\* A draft read with the first slot of the morning for its time
BrouillonFige(data) ==
    [doctor |-> data.doctor, date |-> Champs(data.date, "-"), time |-> <<9, 0>>]

\* The draft as _confirm_appointment reads it
Brouillon(data) ==
    [doctor |-> data.doctor, date |-> Champs(data.date, "-"),
     time |-> Champs(data.time, ":")]

\* update_user_state(user_id, {"progress": ..., "data": ...})
UpdateUserState(cs, u, progress, data) ==
    [cs EXCEPT ![u] = [progress |-> progress, data |-> data]]

\* The booking script: a booking request, a medecin of the list, a date
\* written day first (31-02-2025)
Scenario == <<JeVeuxUnRendezVous, <<"A", " ", "R", " ", "(", "C", ")">>,
              <<"3", "1", "-", "0", "2", "-", "2", "0", "2", "5">>>>

\* How much of the script the consecutive turns of one user have followed,
\* starting from a user without session
Suivi(u, msg) ==
    IF /\ last.op = "message" /\ last.user = u
       /\ Len(last.journal) \in 1..(Len(Scenario) - 1)
       /\ msg = Scenario[Len(last.journal) + 1]
    THEN Append(last.journal, msg)
    ELSE IF chat_state[u] = NoSession /\ msg = Scenario[1] THEN <<msg>>
    ELSE <<>>

\* What a turn leaves in last: the entry ("chat" or "direct"), the user, the
\* message and the response
Tour(u, msg, entree, res) ==
    [Outcome("message", res, None) EXCEPT
        !.user = u, !.arg = entree, !.msg = msg, !.journal = Suivi(u, msg)]

\* A turn that answers without writing chat_state
Repond(u, msg, entree, res) ==
    /\ last' = Tour(u, msg, entree, res)
    /\ UNCHANGED <<rdvs, now, sched, chat_state, inflight, delivered, run, lost>>

\* A turn that writes chat_state
Enregistre(u, msg, entree, res, cs) ==
    /\ chat_state' = cs
    /\ last' = Tour(u, msg, entree, res)
    /\ UNCHANGED <<rdvs, now, sched, inflight, delivered, run, lost>>

\* get_user_state returns the list [] for a user without session
SansSession(u) == chat_state[u] = NoSession

handle_new_appointment(u, msg, entree) ==
    IF Medecins = {}
    THEN Repond(u, msg, entree, "aucun_medecin")
    ELSE Enregistre(u, msg, entree, "medecins",
                    UpdateUserState(chat_state, u, "doctor", NoSession.data))

handle_doctor_selection(u, msg, entree) ==
    Enregistre(u, msg, entree, "quelle_date",
               UpdateUserState(chat_state, u, "date",
                               [chat_state[u].data EXCEPT !.doctor = msg]))

\* The date stage without its strptime
handle_date_selection_sans_controle(u, msg, entree) ==
    Enregistre(u, msg, entree, "quelle_heure",
               UpdateUserState(chat_state, u, "time",
                               [chat_state[u].data EXCEPT !.date = msg]))

handle_date_selection(u, msg, entree) ==
    IF DateLisible(msg)
    THEN Enregistre(u, msg, entree, "quelle_heure",
                    UpdateUserState(chat_state, u, "time",
                                    [chat_state[u].data EXCEPT !.date = msg]))
    ELSE Repond(u, msg, entree, "date_invalide")

handle_time_selection(u, msg, entree) ==
    IF HeureLisible(msg)
    THEN Enregistre(u, msg, entree, "resume",
                    UpdateUserState(chat_state, u, "confirmation",
                                    [chat_state[u].data EXCEPT !.time = msg]))
    ELSE Repond(u, msg, entree, "heure_invalide")

handle_confirmation(u, msg, entree) ==
    IF Lower(msg) \in Affirmations
    THEN confirm_appointment(u, Brouillon(chat_state[u].data))
    ELSE IF Lower(msg) \in Negations
    THEN Enregistre(u, msg, entree, "abandon", ClearUserState(chat_state, u))
    ELSE Repond(u, msg, entree, "oui_ou_non")

handle_appointment_creation(u, msg, entree) ==
    IF SansSession(u)
    THEN Repond(u, msg, entree, "AttributeError")
    ELSE IF Lower(msg) \in Annulations
    THEN Enregistre(u, msg, entree, "annule", ClearUserState(chat_state, u))
    ELSE IF Lower(msg) \in Demandes
    THEN handle_new_appointment(u, msg, entree)
    ELSE IF chat_state[u].progress = "doctor"
    THEN handle_doctor_selection(u, msg, entree)
    ELSE IF chat_state[u].progress = "date"
    THEN handle_date_selection(u, msg, entree)
    ELSE IF chat_state[u].progress = "time"
    THEN handle_time_selection(u, msg, entree)
    ELSE IF chat_state[u].progress = "confirmation"
    THEN handle_confirmation(u, msg, entree)
    ELSE Repond(u, msg, entree, "pas_compris")

\* The third test of chat (startswith "annuler rdv ") is only met by a
\* message the second test has already answered
chat(u, msg) ==
    IF Lower(msg) \in Consultations
    THEN Repond(u, msg, "chat", "liste")
    ELSE IF \E cmd \in CommandesAnnulation : Contient(Lower(msg), cmd)
    THEN Repond(u, msg, "chat", "preciser_id")
    ELSE IF Lower(msg) = Oui /\ SansSession(u)
    THEN Repond(u, msg, "chat", "AttributeError")
    ELSE IF \E keyword \in MotsCles : Contient(Lower(msg), keyword)
    THEN handle_appointment_creation(u, msg, "chat")
    ELSE Repond(u, msg, "chat", "ia")

\* The sessions the stage handlers leave behind: each stage holds the
\* fields of the stages before it
Saisies == [doctor : {Scenario[2], <<"Z">>},
            date : {<<"2", "0", "2", "5", "-", "0", "6", "-", "1", "0">>},
            time : {<<"0", "9", ":", "0", "0">>, <<"0", "9", ":", "3", "0">>}]

SessionsEnCours ==
    {[progress |-> "doctor", data |-> NoSession.data]}
    \cup {[progress |-> "date", data |-> [NoSession.data EXCEPT !.doctor = d.doctor]] :
            d \in Saisies}
    \cup {[progress |-> "time", data |-> [d EXCEPT !.time = NoText]] : d \in Saisies}
    \cup {[progress |-> "confirmation", data |-> d] : d \in Saisies}

Messages ==
    {JeVeuxUnRendezVous, Annuler, AnnulerLeRendezVous, <<"S", "T", "O", "P">>,
     AnnulerRdv, MesRdv, Oui, Non, Scenario[2], Scenario[3]}
    \cup {d.date : d \in Saisies} \cup {d.time : d \in Saisies}

\* The conversation taken at any point: every user is without session or
\* in a session a stage handler has written, at most MaxSessions users are in
\* a session, and the table is empty or holds a rendez-vous created through
\* POST /medecins/rendez-vous
TableInitiale == {<<>>, <<RendezVous(1, 1, 1, 10, Time(9, 0, 0), CONFIRME)>>}

InitSession ==
    /\ rdvs \in TableInitiale
    /\ now = Combine(8, Time(8, 30, 0))
    /\ chat_state \in [Users -> {NoSession} \cup SessionsEnCours]
    /\ Cardinality({u \in Users : chat_state[u] # NoSession}) <= MaxSessions
    /\ inflight = [p \in Procs |-> Repos]
    /\ delivered = [i \in Ids(rdvs) |-> NoDelivery]
    /\ run = [i \in Ids(rdvs) |-> NewRun]
    /\ lost = [i \in Ids(rdvs) |-> FALSE]
    /\ last = Outcome("init", "ok", None)
    /\ sched = Demarre("thread")

ChatTurn == \E u \in Users, msg \in Messages : chat(u, msg)

DirectTurn ==
    \E u \in Users, msg \in Messages : handle_appointment_creation(u, msg, "direct")

NextSession == ChatTurn \/ DirectTurn

SpecSession == InitSession /\ [][NextSession]_vars

-----------------------------------------------------------------------------
(* Properties of the requests served one after the other *)

\* Two rows of the same medecin at the same date and heure, neither cancelled
DoubleReservation(t, i, j) ==
    /\ i # j
    /\ t[i].medecin_id = t[j].medecin_id
    /\ t[i].date = t[j].date
    /\ t[i].heure = t[j].heure
    /\ t[i].statut # ANNULE
    /\ t[j].statut # ANNULE

\* C2: in every state reached by requests served one after the other, no two
\* non-cancelled rows of the same medecin share a (date, heure); a statut-only
\* update of a cancelled row cannot produce a double booking.
C2_UnSeulRendezVousParCreneau ==
    \A i, j \in Ids(rdvs) : ~DoubleReservation(rdvs, i, j)

\* Some row at (m, d, h) is cancelled and no row at (m, d, h) is not
LibereParAnnulation(t, m, d, h) ==
    /\ \E i \in Ids(t) :
          /\ t[i].medecin_id = m /\ t[i].date = d /\ t[i].heure = h
          /\ t[i].statut = ANNULE
    /\ \A i \in Ids(t) :
          (t[i].medecin_id = m /\ t[i].date = d /\ t[i].heure = h)
              => t[i].statut = ANNULE

\* The last row of the table is a non-cancelled row at (m, d, h)
DerniereLigneA(t, m, d, h) ==
    /\ Len(t) > 0
    /\ t[Len(t)].medecin_id = m /\ t[Len(t)].date = d /\ t[Len(t)].heure = h
    /\ t[Len(t)].statut # ANNULE

-----------------------------------------------------------------------------
(* Properties of the dispatcher *)

\* The scheduler loop of NotificationScheduler.run never stops asking for a
\* cycle while it is running
SpecLive == SpecDisp /\ WF_vars(Cycle)

\* C4: cycles run against an appointment that does not change, while the
\* clock stays inside one horizon window, deliver at most one reminder for
\* that horizon.
C4_AuPlusUnRappelParFenetre ==
    \A i \in Ids(rdvs) : run[i].sent <= 1

\* C5: over every execution, flag commits that fail and changes of statut,
\* date or heure between cycles included, the dispatcher delivers at most one
\* reminder per (appointment, horizon).
C5_AuPlusUnRappelParHorizon ==
    \A i \in Ids(rdvs) : delivered[i].h24 <= 1 /\ delivered[i].h1 <= 1

\* The bucket the classification by delta names for a confirmed row
Delta(row, n) == (row.date * Day + row.heure) - n

Seau(row, n) ==
    IF Delta(row, n) > 0 /\ Delta(row, n) <= Hour
    THEN IF row.notification_1h_envoyee THEN "aucun" ELSE "reminder_1h"
    ELSE IF Delta(row, n) > Hour /\ Delta(row, n) <= 24 * Hour
    THEN IF row.notification_24h_envoyee THEN "aucun" ELSE "reminder_24h"
    ELSE "aucun"

\* The reminders a cycle handed to the sender for row i
Remis(j, i) == {k \in 1..Len(j) : j[k].id = i}

\* The loop reached row i: no exception left it on another row
Atteint(l, i) == l.res = "ok" \/ l.journal[Len(l.journal)].id = i

\* C6: a cycle classifies a confirmed appointment by delta = date and heure
\* minus now: 0 < delta <= 1h, delta exactly 1h included, is the 1h reminder
\* and never the 24h one; 1h < delta <= 24h is the 24h reminder; delta = 0,
\* delta < 0 and delta > 24h get no reminder at all.
C6_ClassementParDelta ==
    [][last'.op = "cycle" =>
         \A i \in Ids(rdvs) :
            /\ \A k \in Remis(last'.journal, i) :
                  /\ rdvs[i].statut = CONFIRME
                  /\ last'.journal[k].rappel = Seau(rdvs[i], now)
            /\ Cardinality(Remis(last'.journal, i)) <= 1
            /\ ( /\ rdvs[i].statut = CONFIRME
                 /\ Seau(rdvs[i], now) # "aucun"
                 /\ Atteint(last', i) )
               => Remis(last'.journal, i) # {}
      ]_vars

\* A cycle has handed the 1h reminder to the sender at delta exactly 1h
C6_RappelUneHeureJuste ==
    /\ last.op = "cycle"
    /\ \E k \in 1..Len(last.journal) :
          /\ last.journal[k].rappel = "reminder_1h"
          /\ Delta(rdvs[last.journal[k].id], now) = Hour

\* The sender took the reminder r of row i and the flag was committed
Envoye(l, i, r) ==
    \E k \in Remis(l.journal, i) :
        l.journal[k].rappel = r /\ l.journal[k].issue = "envoye"

\* C7: for a confirmed appointment with both flags false, a cycle at
\* delta = 23h sends the 24h reminder and sets notification_24h_envoyee only;
\* a later cycle at delta = 30 min sends the 1h reminder and sets
\* notification_1h_envoyee; a further cycle with the clock unchanged sends
\* nothing.
C7_ScenarioDesDeuxRappels ==
    [][last'.op = "cycle" =>
         \A i \in Ids(rdvs) :
            (rdvs[i].statut = CONFIRME /\ Atteint(last', i)) =>
               /\ ( /\ Delta(rdvs[i], now) = 23 * Hour
                    /\ ~rdvs[i].notification_24h_envoyee
                    /\ ~rdvs[i].notification_1h_envoyee )
                  => /\ \E k \in Remis(last'.journal, i) :
                           last'.journal[k].rappel = "reminder_24h"
                     /\ ~rdvs'[i].notification_1h_envoyee
                     /\ delivered'[i].h1 = delivered[i].h1
                     /\ Envoye(last', i, "reminder_24h")
                           => /\ rdvs'[i].notification_24h_envoyee
                              /\ delivered'[i].h24 = delivered[i].h24 + 1
               /\ ( /\ Delta(rdvs[i], now) = Hour \div 2
                    /\ rdvs[i].notification_24h_envoyee
                    /\ ~rdvs[i].notification_1h_envoyee )
                  => /\ \E k \in Remis(last'.journal, i) :
                           last'.journal[k].rappel = "reminder_1h"
                     /\ delivered'[i].h24 = delivered[i].h24
                     /\ Envoye(last', i, "reminder_1h")
                           => /\ rdvs'[i].notification_1h_envoyee
                              /\ delivered'[i].h1 = delivered[i].h1 + 1
               /\ ( /\ Delta(rdvs[i], now) = Hour \div 2
                    /\ rdvs[i].notification_24h_envoyee
                    /\ rdvs[i].notification_1h_envoyee )
                  => /\ Remis(last'.journal, i) = {}
                     /\ delivered'[i] = delivered[i]
                     /\ rdvs'[i] = rdvs[i]
      ]_vars

\* Both reminders went out once, and a further cycle at 08:30 sent nothing
C7_CycleDeTropSansEnvoi ==
    /\ last.op = "cycle"
    /\ last.journal = <<>>
    /\ \E i \in Ids(rdvs) :
          /\ rdvs[i].statut = CONFIRME
          /\ Delta(rdvs[i], now) = Hour \div 2
          /\ rdvs[i].notification_24h_envoyee
          /\ rdvs[i].notification_1h_envoyee
          /\ delivered[i] = [h24 |-> 1, h1 |-> 1]
          /\ run[i].cycles >= 2

\* The sender has taken a reminder for row i since the row and its horizon
\* last changed
SenderAReussi(i) == i \in Ids(rdvs) /\ run[i].sent >= 1

\* The reminder of the horizon the clock is in went out once, flag set
DelivreEtMarque(i) ==
    /\ i \in Ids(rdvs)
    /\ \/ /\ Delta(rdvs[i], now) \in 1..Hour
          /\ rdvs[i].notification_1h_envoyee
          /\ delivered[i].h1 = 1
       \/ /\ Delta(rdvs[i], now) \in (Hour + 1)..(24 * Hour)
          /\ rdvs[i].notification_24h_envoyee
          /\ delivered[i].h24 = 1

\* C8: while the appointment stays confirmed and unchanged and cycles keep
\* running inside a horizon window, once the sender has succeeded on one of
\* them the reminder of that horizon is delivered exactly once and its flag
\* ends up set.
C8_RappelDelivreEtMarque ==
    \A i \in 1..MaxRdvDisp : SenderAReussi(i) ~> DelivreEtMarque(i)

-----------------------------------------------------------------------------
(* Properties of the slot calculator *)

\* The start times of a day: 09:00, 09:30, ... 17:30
Departs == {Time(9, 0, 0) + k * 30 * 60 : k \in 0..17}

\* A non-cancelled appointment of the doctor on the date is at that time
Coincide(t, m, d, h) ==
    \E i \in Ids(t) :
        /\ t[i].medecin_id = m
        /\ t[i].date = d
        /\ t[i].heure = h
        /\ t[i].statut \in {PLANIFIE, CONFIRME, TERMINE}

\* C9: for every doctor and date the calculator returns, in strictly
\* ascending order, exactly the start times 09:00, 09:30, ... 17:30 that do
\* not coincide with a non-cancelled appointment of that doctor on that date.
C9_CreneauxLibresExacts ==
    last.op = "disponibilite" =>
        /\ \A a, b \in 1..Len(last.journal) : a < b => last.journal[a] < last.journal[b]
        /\ {last.journal[k] : k \in 1..Len(last.journal)}
              = {last.date * Day + h :
                    h \in {x \in Departs : ~Coincide(rdvs, last.id, last.date, x)}}

-----------------------------------------------------------------------------
(* Properties of rejected and notified creations *)

\* The answers of a create that is rejected: a reference that does not
\* resolve, or a creneau held by a non-cancelled rendez-vous
Rejets ==
    {"404_patient", "404_hopital", "400_creneau",
     "patient_introuvable", "medecin_introuvable", "creneau_indisponible"}

\* C11: a create rejected because the patient, the hopital or the medecin
\* does not resolve, or because a non-cancelled rendez-vous holds the
\* creneau, adds no row and leaves the table as it was, through
\* creer_rendez_vous as through _confirm_appointment.
C11_RejetSansEcriture ==
    [][(last'.op \in {"creer", "confirmer"} /\ last'.res \in Rejets)
          => rdvs' = rdvs]_vars

\* A creation has been refused on a creneau that is taken
C11_CreationRefuseeSurConflit ==
    /\ last.op = "creer"
    /\ last.res = "400_creneau"
    /\ \E i \in Ids(rdvs) : rdvs[i].statut \in {PLANIFIE, CONFIRME, TERMINE}

-----------------------------------------------------------------------------
(* Properties of the lifecycle and of the reminder flags *)

\* C13: an operation that is no legal transition from the current statut is
\* rejected and changes nothing; a rendez-vous that is annule or termine
\* keeps its statut, date, heure and flags whatever is requested on it.
C13_AnnuleEtTermineAbsorbants ==
    [][\A i \in Ids(rdvs) :
          rdvs[i].statut \in {ANNULE, TERMINE} => rdvs'[i] = rdvs[i]]_vars

\* The row the last update wrote has another date or heure than before
Deplace(t, u, l) ==
    /\ l.op = "maj"
    /\ l.res = "200"
    /\ l.id \in Ids(t)
    /\ (u[l.id].date # t[l.id].date \/ u[l.id].heure # t[l.id].heure)

\* C14: a successful update that changes the date or the heure of a
\* rendez-vous resets notification_24h_envoyee and notification_1h_envoyee
\* to false.
C14_DeplacementRemetLesFlags ==
    [][Deplace(rdvs, rdvs', last')
          => /\ ~rdvs'[last'.id].notification_24h_envoyee
             /\ ~rdvs'[last'.id].notification_1h_envoyee]_vars

\* C15: as long as the rendez-vous is not moved to another date or heure, a
\* reminder flag that is true stays true, whatever operation runs: update
\* of the statut, chat cancellation, dispatcher cycle, failed flag commit.
C15_FlagsMonotones ==
    [][\A i \in Ids(rdvs) :
          (rdvs'[i].date = rdvs[i].date /\ rdvs'[i].heure = rdvs[i].heure)
             => /\ rdvs[i].notification_24h_envoyee
                      => rdvs'[i].notification_24h_envoyee
                /\ rdvs[i].notification_1h_envoyee
                      => rdvs'[i].notification_1h_envoyee]_vars

\* An update has cancelled a rendez-vous whose 24h reminder had gone out:
\* the flag is still set
C15_FlagGardeApresAnnulation ==
    /\ last.op = "maj"
    /\ last.res = "200"
    /\ last.id \in Ids(rdvs)
    /\ rdvs[last.id].statut = ANNULE
    /\ rdvs[last.id].notification_24h_envoyee
    /\ delivered[last.id].h24 >= 1

-----------------------------------------------------------------------------
(* Properties of the scheduler loop *)

\* C16: when the stop signal has arrived while the dispatcher waits between
\* two cycles, the dispatcher does not complete the sleep and runs no
\* further cycle: the only thing it still does is stop.
C16_ArretSansAttendreNiCycle ==
    [][sched.pendant = "sleep" => sched'.pc \in {sched.pc, "arrete"}]_vars

-----------------------------------------------------------------------------
(* Properties of the booking conversation *)

\* C17: when a user without session sends a booking request and the
\* medecins table is not empty, the turn leaves the user a session at the
\* stage "doctor" with an empty draft.
C17_DemandeOuvreLaSession ==
    [][(/\ last'.op = "message"
        /\ last'.journal = <<JeVeuxUnRendezVous>>
        /\ Medecins # {})
       => chat_state'[last'.user] = [progress |-> "doctor", data |-> NoSession.data]]_vars

\* C18: once a user without session has sent, turn after turn, a booking
\* request, the name of a medecin and the date 31-02-2025, the session is at
\* the stage "date" and its draft holds that medecin.
C18_ScenarioDateMalFormee ==
    (last.op = "message" /\ last.journal = Scenario)
    => /\ chat_state[last.user].progress = "date"
       /\ chat_state[last.user].data.doctor = Scenario[2]

ValeursAttendues(data) ==
    [medecin |-> IF data.doctor = <<"A", " ", "R", " ", "(", "C", ")">> THEN 1 ELSE None,
     date |-> IF data.date = <<"2", "0", "2", "5", "-", "0", "6", "-", "1", "0">>
              THEN 10 ELSE None,
     heure |-> IF data.time = <<"0", "9", ":", "0", "0">> THEN Time(9, 0, 0)
               ELSE IF data.time = <<"0", "9", ":", "3", "0">> THEN Time(9, 30, 0)
               ELSE None]

MemesValeurs(row, v) ==
    row.medecin_id = v.medecin /\ row.date = v.date /\ row.heure = v.heure

-----------------------------------------------------------------------------
(* Dispatcher cycles over a table of several rendez-vous *)

\* The rendez-vous of the table: medecin 1 on 2025-06-10 at 09:00, 09:30
\* or 10:00, confirmed or still planifie, no reminder sent yet
LignesLot ==
    {RendezVous(1, 1, 1, 10, h, st) :
        h \in {Time(9, 0, 0), Time(9, 30, 0), Time(10, 0, 0)},
        st \in {CONFIRME, PLANIFIE}}

TablesLot ==
    {t \in [1..MaxRdvLot -> LignesLot] :
        \A i, j \in 1..MaxRdvLot : i # j => t[i].heure # t[j].heure}

\* The instants at which the clock is read: both rendez-vous a day away,
\* one an hour away and the other not yet, both an hour away
InstantsLot ==
    {Combine(9, Time(9, 15, 0)), Combine(10, Time(8, 15, 0)),
     Combine(10, Time(8, 45, 0))}

InitLot ==
    /\ rdvs \in TablesLot
    /\ now = Combine(8, Time(8, 30, 0))
    /\ chat_state = [u \in Users |-> NoSession]
    /\ inflight = [p \in Procs |-> Repos]
    /\ delivered = [i \in Ids(rdvs) |-> NoDelivery]
    /\ run = [i \in Ids(rdvs) |-> NewRun]
    /\ lost = [i \in Ids(rdvs) |-> FALSE]
    /\ last = Outcome("init", "ok", None)
    /\ sched = Demarre("thread")

TickLot == \E n \in InstantsLot : Avance(n)

NextLot == Cycle \/ TickLot

SpecLot == InitLot /\ [][NextLot]_vars

\* The same tables under the loop of NotificationScheduler.run
NextBoucle == SchedCycle \/ SchedErreur \/ SchedReveil \/ TickLot

SpecBoucle == InitLot /\ [][NextBoucle]_vars

-----------------------------------------------------------------------------
(* Properties of the dispatcher cycle, continued *)

\* C22: a cycle hands no reminder to the sender for a row whose statut is not
\* confirme when the cycle runs, and leaves that row, flags included, and
\* its deliveries as they were.
C22_RappelsAuxSeulsConfirmes ==
    [][last'.op = "cycle"
       => \A i \in Ids(rdvs) :
             rdvs[i].statut # CONFIRME
             => /\ \A k \in DOMAIN last'.journal : last'.journal[k].id # i
                /\ rdvs'[i] = rdvs[i]
                /\ delivered'[i] = delivered[i]]_vars

\* A cycle has run less than an hour before a cancelled rendez-vous that
\* never had a reminder
C22_CycleSurRendezVousAnnule ==
    /\ last.op = "cycle"
    /\ Len(rdvs) = 1
    /\ rdvs[1].statut = ANNULE
    /\ Combine(rdvs[1].date, rdvs[1].heure) - now \in 1..Hour
    /\ ~rdvs[1].notification_1h_envoyee /\ ~rdvs[1].notification_24h_envoyee

\* The cycle handed the reminder r of row i to the sender with this issue
Note(l, i, r, issue) ==
    \E k \in DOMAIN l.journal :
        l.journal[k] = [id |-> i, rappel |-> r, issue |-> issue]

\* A store error left the loop of the cycle
ErreurDeStockage(l) ==
    \E k \in DOMAIN l.journal : l.journal[k].issue = "commit_echoue"

\* C23: a flag of a row goes from false to true only in a cycle in which the
\* sender accepted the reminder of that row and horizon; a reminder the
\* sender refused leaves the row as it was; and a cycle that no store error
\* cuts short and that finds a confirmed row in a window where earlier
\* cycles delivered nothing hands the reminder of that window to the sender
\* again.
C23_FlagSeulementApresSucces ==
    [][\A i \in Ids(rdvs) :
          /\ (~rdvs[i].notification_1h_envoyee /\ rdvs'[i].notification_1h_envoyee)
             => last'.op = "cycle" /\ Note(last', i, "reminder_1h", "envoye")
          /\ (~rdvs[i].notification_24h_envoyee /\ rdvs'[i].notification_24h_envoyee)
             => last'.op = "cycle" /\ Note(last', i, "reminder_24h", "envoye")
          /\ last'.op = "cycle"
             => /\ \A r \in {"reminder_1h", "reminder_24h"} :
                      Note(last', i, r, "refuse") => rdvs'[i] = rdvs[i]
                /\ ( /\ run[i].cycles >= 1 /\ run[i].sent = 0
                     /\ ~ErreurDeStockage(last')
                     /\ rdvs[i].statut = CONFIRME
                     /\ Seau(rdvs[i], now) # "aucun" )
                   => \E issue \in {"envoye", "refuse", "commit_echoue"} :
                         Note(last', i, Seau(rdvs[i], now), issue)
      ]_vars

\* The second cycle in a row in the 1h window of a rendez-vous: the sender,
\* which had refused the reminder, is handed it again
C23_RappelRetenteApresRefus ==
    /\ last.op = "cycle"
    /\ Len(rdvs) = 1
    /\ run[1].cycles = 2 /\ run[1].sent = 0
    /\ Note(last, 1, "reminder_1h", "refuse")
    /\ ~rdvs[1].notification_1h_envoyee

\* C24: in a cycle without store error in which the sender refused the
\* reminder of one row, every other confirmed row that is due is handed to
\* the sender too, and has its flag set when the sender accepts it.
C24_RefusSansArretDuCycle ==
    [][(last'.op = "cycle" /\ ~ErreurDeStockage(last'))
       => \A i, j \in Ids(rdvs) :
             ( /\ i # j
               /\ Note(last', i, Seau(rdvs[i], now), "refuse")
               /\ rdvs[j].statut = CONFIRME
               /\ Seau(rdvs[j], now) # "aucun" )
             => /\ \E issue \in {"envoye", "refuse"} :
                      Note(last', j, Seau(rdvs[j], now), issue)
                /\ Note(last', j, "reminder_1h", "envoye")
                   => rdvs'[j].notification_1h_envoyee
                /\ Note(last', j, "reminder_24h", "envoye")
                   => rdvs'[j].notification_24h_envoyee
      ]_vars

\* A cycle in which the sender refused the first reminder and accepted the
\* second, whose flag is set
C24_EnvoiApresRefus ==
    /\ last.op = "cycle"
    /\ Len(last.journal) = 2
    /\ last.journal[1].issue = "refuse"
    /\ last.journal[2].issue = "envoye"
    /\ last.journal[2].rappel = "reminder_1h"
    /\ rdvs[last.journal[2].id].notification_1h_envoyee
    /\ ~rdvs[last.journal[1].id].notification_1h_envoyee
    /\ ~rdvs[last.journal[1].id].notification_24h_envoyee

\* The step is a turn of the loop of run() that went through its cycle
TourDeBoucle == sched.pc = "cycle" /\ sched'.pc = "sleep" /\ last'.op = "cycle"

-----------------------------------------------------------------------------
(* Two requests on the same rendez-vous served at the same time.  Each
   worker serves one request: the update handler or the cancellation of the
   chat, cut between its queries and its commit as above.  The UPDATE a
   commit emits sets the columns the request assigned and no other. *)

\* cancel_appointment up to its row query (chatbot.py:350-358)
AnnulerVerifie(p, u, id) ==
    /\ inflight[p].pc = "repos"
    /\ inflight' = [inflight EXCEPT ![p] =
          [Repos EXCEPT !.pc = IF Annulable(rdvs, u, id) THEN "verifie" ELSE "fini",
                        !.kind = "annuler", !.id = id, !.user = u,
                        !.res = IF Annulable(rdvs, u, id) THEN "ok" ELSE "introuvable"]]
    /\ UNCHANGED <<rdvs, now, sched, chat_state, delivered, run, lost, last>>

\* rdv.statut = ANNULE; db.commit() (chatbot.py:360-361)
AnnulerCommit(p) ==
    /\ inflight[p].pc = "verifie"
    /\ inflight[p].kind = "annuler"
    /\ rdvs' = [rdvs EXCEPT ![inflight[p].id].statut = ANNULE]
    /\ inflight' = [inflight EXCEPT ![p].pc = "fini"]
    /\ UNCHANGED <<now, sched, chat_state, delivered, run, lost, last>>

\* Rendez-vous 1 of medecin 1 on 2025-06-10 at 09:00 and rendez-vous 2 of
\* the same medecin on 2025-06-11 at 09:30, both confirmed
TableSerie ==
    <<RendezVous(1, 1, 1, 10, Time(9, 0, 0), CONFIRME),
      RendezVous(1, 1, 1, 11, Time(9, 30, 0), CONFIRME)>>

\* The payloads of the updates: a new date, a new heure, a new statut, or
\* several of them
MisesAJourSerie ==
    [date : {11, None}, heure : {Time(9, 30, 0), None}, statut : {NoStatut, TERMINE}]

InitSerie ==
    /\ rdvs = TableSerie
    /\ now = Combine(8, Time(8, 30, 0))
    /\ chat_state = [u \in Users |-> NoSession]
    /\ inflight = [p \in Procs |-> Repos]
    /\ delivered = [i \in Ids(rdvs) |-> NoDelivery]
    /\ run = [i \in Ids(rdvs) |-> NewRun]
    /\ lost = [i \in Ids(rdvs) |-> FALSE]
    /\ last = Outcome("init", "ok", None)
    /\ sched = Demarre("thread")

SerieMaj == \E p \in Procs, maj \in MisesAJourSerie : MajVerifie(p, 1, 1, maj)
SerieAnnuler == \E p \in Procs : AnnulerVerifie(p, "u1", 1)
SerieMajCommit == \E p \in Procs : inflight[p].kind = "maj" /\ Commit(p)
SerieAnnulerCommit == \E p \in Procs : AnnulerCommit(p)

NextSerie == SerieMaj \/ SerieAnnuler \/ SerieMajCommit \/ SerieAnnulerCommit

SpecSerie == InitSerie /\ [][NextSerie]_vars

\* The table after the request a worker holds has been served alone on t
SeulSur(t, w) ==
    IF w.kind = "maj"
    THEN IF MajResultat(t, 1, 1, w.maj) = "200"
         THEN [t EXCEPT ![1] = AppliquerMaj(@, w.maj)] ELSE t
    ELSE IF Annulable(t, w.user, 1) THEN [t EXCEPT ![1].statut = ANNULE] ELSE t

\* C27: when the two workers have served their requests on rendez-vous 1,
\* the row is what serving the two requests one after the other, in one of
\* the two orders, leaves.
C27_ResultatSerialisable ==
    (\A p \in Procs : inflight[p].pc = "fini")
    => \/ rdvs[1] = SeulSur(SeulSur(TableSerie, inflight[1]), inflight[2])[1]
       \/ rdvs[1] = SeulSur(SeulSur(TableSerie, inflight[2]), inflight[1])[1]

-----------------------------------------------------------------------------
(* The dispatcher cycle beside the request handlers.  The scheduler thread
   and the workers of the server share the database only: the cycle reads
   its candidates with one query, then walks the rows it has loaded, and a
   handler may commit between the query and the walk.  The tables of these
   runs hold one rendez-vous; inflight[Planificateur] keeps the session of
   the cycle. *)

\* The scheduler thread started beside the server
Planificateur == CHOOSE p \in Procs : \A q \in Procs : p <= q

\* now = datetime.now(); rendez_vous = db.query(...).all()
CycleLit ==
    /\ inflight[Planificateur].pc = "repos"
    /\ IF Candidats(rdvs, now) = {}
       THEN UNCHANGED inflight
       ELSE \E i \in Candidats(rdvs, now) :
               inflight' = [inflight EXCEPT ![Planificateur] =
                   [Repos EXCEPT !.pc = "lu", !.kind = "cycle", !.id = i,
                                 !.ligne = rdvs[i]]]
    /\ last' = Outcome("cycle", "lu", None)
    /\ UNCHANGED <<rdvs, now, sched, chat_state, delivered, run, lost>>

\* The body of the for loop on the loaded row: the if / elif reads the
\* attributes loaded by the query, the sender is called, the flag is
\* assigned and committed
CycleEnvoie(issue) ==
    LET i == inflight[Planificateur].id
        r == Rappel(inflight[Planificateur].ligne, now)
        fait == [Outcome("cycle", IF issue = "commit_echoue" THEN "abandon" ELSE "ok", i)
                    EXCEPT !.journal = IF r = "aucun" THEN <<>>
                                       ELSE <<[id |-> i, rappel |-> r, issue |-> issue]>>]
    IN
    /\ inflight[Planificateur].pc = "lu"
    /\ inflight' = [inflight EXCEPT ![Planificateur] = Repos]
    /\ last' = fait
    /\ IF r = "aucun" \/ issue = "refuse"
       THEN UNCHANGED <<rdvs, delivered>>
       ELSE /\ Compte(delivered[i], r).h1 <= MaxSent
            /\ Compte(delivered[i], r).h24 <= MaxSent
            /\ delivered' = [delivered EXCEPT ![i] = Compte(@, r)]
            /\ rdvs' = IF issue = "envoye"
                       THEN [rdvs EXCEPT ![i] = FlagPose(@, r)]
                       ELSE rdvs
    /\ UNCHANGED <<now, sched, chat_state, run, lost>>

\* A confirmed rendez-vous on 2025-06-10 at 09:00, read a day before, less
\* than an hour before, and after its time
InstantsCours ==
    {Combine(9, Time(9, 30, 0)), Combine(10, Time(8, 30, 0)),
     Combine(10, Time(9, 15, 0))}

InitCours ==
    /\ rdvs = <<RendezVous(1, 1, 1, 10, Time(9, 0, 0), CONFIRME)>>
    /\ now \in InstantsCours
    /\ chat_state = [u \in Users |-> NoSession]
    /\ inflight = [p \in Procs |-> Repos]
    /\ delivered = <<NoDelivery>>
    /\ run = <<NewRun>>
    /\ lost = <<FALSE>>
    /\ last = Outcome("init", "ok", None)
    /\ sched = Demarre("thread")

CoursEnvoie == \E issue \in Issues : CycleEnvoie(issue)
CoursAnnule == cancel_appointment("u1", 1)
CoursMaj == \E maj \in MisesAJourDisp : mettre_a_jour_rendez_vous(1, 1, maj)

NextCours == CycleLit \/ CoursEnvoie \/ CoursAnnule \/ CoursMaj

SpecCours == InitCours /\ [][NextCours]_vars

\* C30: whenever the sender is handed a reminder, the rendez-vous is
\* confirmed in the table at that moment and the reminder is the one its
\* date and heure in the table call for.
C30_RappelSurValeursCourantes ==
    [][(last'.op = "cycle" /\ last'.journal # <<>>)
       => /\ rdvs[last'.id].statut = CONFIRME
          /\ Seau(rdvs[last'.id], now) = last'.journal[1].rappel]_vars

-----------------------------------------------------------------------------
(* Properties of the update handler *)

\* Another row than id, of the same medecin and not cancelled, holds (d, h)
AutreTitulaire(t, id, d, h) ==
    \E j \in Ids(t) :
        /\ j # id
        /\ t[j].medecin_id = t[id].medecin_id
        /\ t[j].statut # ANNULE
        /\ t[j].date = d /\ t[j].heure = h

\* C26: an update of a row of the connected medecin is answered 400 exactly
\* when its payload carries a date or an heure and another non-cancelled row
\* of the same medecin holds the slot the row would take; the row itself
\* never counts, so an update that keeps the row's slot or carries only a
\* statut is not refused on its own account.
C26_PasDeConflitAvecSoiMeme ==
    [][(last'.op = "maj" /\ last'.res \in {"200", "400_creneau"})
       => (last'.res = "400_creneau"
           <=> /\ last'.date # None \/ last'.heure # None
               /\ AutreTitulaire(rdvs, last'.id,
                      IF last'.date = None THEN rdvs[last'.id].date ELSE last'.date,
                      IF last'.heure = None THEN rdvs[last'.id].heure ELSE last'.heure))
      ]_vars

\* An update whose payload names the date and heure the row already has,
\* answered 200, beside another rendez-vous of the same medecin
C26_MiseAJourSurPlace ==
    /\ last.op = "maj" /\ last.res = "200"
    /\ last.date = last.journal[1].date
    /\ last.heure = last.journal[1].heure
    /\ last.journal[1].statut # ANNULE
    /\ Len(rdvs) = 2
    /\ rdvs[1].medecin_id = rdvs[2].medecin_id
    /\ rdvs[1].statut # ANNULE /\ rdvs[2].statut # ANNULE

-----------------------------------------------------------------------------
(* Properties of the booking conversation, continued *)

DatesBienFormees == {<<"2", "0", "2", "5", "-", "0", "6", "-", "1", "0">>}
HeuresBienFormees == {<<"0", "9", ":", "0", "0">>, <<"0", "9", ":", "3", "0">>}

\* The fields of the draft the stage of a session calls for
BrouillonDuStade(s) ==
    /\ s.progress \in {"none", "doctor"}
       => s.data = [doctor |-> <<>>, date |-> <<>>, time |-> <<>>]
    /\ s.progress \in {"date", "time", "confirmation"} => s.data.doctor # <<>>
    /\ s.progress = "date" => s.data.date = <<>> /\ s.data.time = <<>>
    /\ s.progress \in {"time", "confirmation"} => s.data.date \in DatesBienFormees
    /\ s.progress = "time" => s.data.time = <<>>
    /\ s.progress = "confirmation" => s.data.time \in HeuresBienFormees

Rang(s) ==
    CASE s.progress = "none" -> 0
      [] s.progress = "doctor" -> 1
      [] s.progress = "date" -> 2
      [] s.progress = "time" -> 3
      [] s.progress = "confirmation" -> 4

====
